---- MODULE Spec2Model ----
(***************************************************************************)
(* State-machine model of RAGPipeline (src/rag_pipeline.py): one pipeline  *)
(* object driven by an arbitrary sequence of calls to its public methods.  *)
(* Objects created by an initialize call carry the number of that call, so *)
(* that "belongs to attempt n" is observable.  The conversation memory is  *)
(* a heap object: the pipeline field and the query chain each hold a       *)
(* reference to one.                                                       *)
(***************************************************************************)
EXTENDS Integers, Sequences, FiniteSets, TLC

VARIABLES
    embeddings,   \* self.embeddings: 0 (None) or the attempt that created it
    vectorstore,  \* self.vectorstore: NoStore (None) or a FAISS store
    llm,          \* self.llm: 0 (None) or the attempt that created it
    memory,       \* self.memory: 0 (None) or a reference into chat_memory
    qa_chain,     \* self.qa_chain: NoChain (None) or a chain
    chat_memory,  \* heap: memory reference -> its chat_memory.messages
    disk,         \* file system: path -> saved index folder
    attempts,     \* number of initialize calls made so far
    succeeded,    \* some initialize call has returned normally
    lastCall,     \* the last call made on the pipeline and what it returned
    mutex,        \* the callers take a lock around every query call
    holder,       \* the caller holding that lock, 0 when none does
    inflight,     \* caller -> where its query call stands and what it holds
    conditioned,  \* per turn of the chain's memory, in stored order: the
                  \* memory window its answer was generated from
    session_state,  \* st.session_state of one browser session of the application
    temp_files,   \* the temporary files of uploads that exist
    uploads,      \* number of uploads the application has handled
    lastAction    \* the last action of the user interface and how it ended

vars == <<embeddings, vectorstore, llm, memory, qa_chain, chat_memory, disk,
          attempts, succeeded, lastCall, mutex, holder, inflight, conditioned,
          session_state, temp_files, uploads, lastAction>>

\* The state of the application; a pipeline driven directly leaves it alone.
app == <<session_state, temp_files, uploads, lastAction>>

\* The state of concurrent callers; a pipeline driven by one caller leaves it
\* alone.
callers == <<mutex, holder, inflight, conditioned>>

fields == <<embeddings, vectorstore, llm, memory, qa_chain>>

----------------------------------------------------------------------------
(* Bounds of the model *)

MaxAttempts == 2   \* initialize calls per behaviour
MaxTurns == 2      \* recorded turns per memory object
MaxWindowTurns == 7   \* recorded turns of a long conversation
MaxConcurrentTurns == 3   \* recorded turns of a conversation of two callers
MaxUploads == 2    \* uploads handled by the application
MaxChat == 2       \* questions asked in the chat of the application

(* Program constants *)

RetrieverK == 5    \* search_kwargs={"k": 5}
MemoryK == 5       \* ConversationBufferWindowMemory(k=5)

----------------------------------------------------------------------------
(* Inputs *)

\* A text is a sequence of blocks separated by paragraph breaks; block 0 is a
\* block of whitespace only, any other number a paragraph that fits one chunk.
Texts == { <<>>, <<0>>, <<1>>, <<2, 0, 3>> }

\* Texts of a long conversation: fewer chunks than the retriever asks for, and
\* more.
LongTexts == { <<1, 2>>, <<1, 2, 3, 4, 5, 6>> }

Questions == {"Hello", "What is the capital of France?"}
Answers == {"Paris."}
Causes == {"timeout", "quota"}
Paths == {"idx"}

\* What the collaborators of one query do: the language model condensing the
\* question raises a cause or returns a standalone question, the retriever
\* fails or not, the language model answering raises a cause or returns an
\* answer.  A collaborator that is not reached is "unused".
Envs ==
    {[condense |-> c, search |-> "unused", gen |-> "unused"] : c \in Causes}
    \cup {[condense |-> s, search |-> "fail", gen |-> "unused"] : s \in Questions}
    \cup {[condense |-> s, search |-> "ok", gen |-> g] :
              s \in Questions, g \in Causes \cup Answers}

\* The step of initialize that raises: "none" when every step succeeds.
Steps == <<"embeddings", "text", "vectorstore", "llm", "memory", "chain">>
FailPoints == {"none"} \cup {Steps[i] : i \in 1..Len(Steps)}

----------------------------------------------------------------------------
(* Values *)

NoStore == [origin |-> "none", att |-> 0, docs |-> <<>>]
NoChain == [att |-> 0, retriever |-> NoStore, memory |-> 0, llm |-> 0]
NoFile == [exists |-> FALSE, docs |-> <<>>]

HumanMessage(text) == [type |-> "human", content |-> <<text>>]
AIMessage(content) == [type |-> "ai", content |-> content]

\* What a call did.  outcome: "returned" or "raised"; error: the error raised;
\* failed_at: the step whose exception ended the call or was recovered by it;
\* searches and llm_calls: the retriever and language-model invocations the
\* call made; chat_history: the memory window the chain put in its prompt.
\* cause: the exception the except branch of query caught.
\* For clear_memory, repeat: the call before it was clear_memory too; cleared:
\* the messages removed by this unbroken run of clear_memory calls.
\* For initialize, was_ready: the pipeline accepted queries when the call
\* began; cleared: the messages history() held then, when the call replaced
\* the memory.
\* For query, prompt: the prompt the chain composed for the answering call;
\* after_failure: the query succeeded and the call before it was a query whose
\* language-model call failed.
\* trace: the steps of the chain this query started, in the order it started
\* them.
\* For load_vectorstore, after_save: the call before it was save_vectorstore
\* to the same path.
NoCall == [op |-> "none", text |-> <<>>, question |-> "", path |-> "",
           outcome |-> "none", error |-> "none", failed_at |-> "none",
           answer |-> <<>>, source_documents |-> <<>>, chat_history |-> <<>>,
           cause |-> "none", searches |-> 0, llm_calls |-> 0,
           repeat |-> FALSE, was_ready |-> FALSE, cleared |-> 0,
           prompt |-> <<>>, after_failure |-> FALSE, after_save |-> FALSE,
           trace |-> <<>>]

----------------------------------------------------------------------------
(* load_and_process_text: RecursiveCharacterTextSplitter.split_documents.  *)
(* Every paragraph that holds text becomes a chunk, in document order; a   *)
(* block of whitespace is stripped to nothing and yields no chunk.         *)

SplitText(text) == SelectSeq(text, LAMBDA b : b # 0)

\* not text.strip(): the text holds nothing but whitespace.
IsBlank(text) == \A i \in DOMAIN text : text[i] = 0

\* A FAISS.from_documents that builds an empty index from no documents.
FromDocumentsRaises_Never(documents) == FALSE

(* FAISS.from_documents raises on an empty document list (there is no     *)
(* first embedding to take the dimension from).                            *)
FromDocumentsRaises(documents) == documents = <<>>

StepIndex(step) == IF step = "none" THEN 0
                   ELSE CHOOSE i \in 1..Len(Steps) : Steps[i] = step

\* The step of initialize_pipeline_from_text that raises (0: none does), when
\* the environment makes step `fail` raise.
RaisedAt(text, fail) ==
    LET f == StepIndex(fail) IN
    IF FromDocumentsRaises(SplitText(text)) /\ (f = 0 \/ f > StepIndex("vectorstore"))
    THEN StepIndex("vectorstore")
    ELSE f

\* A step that has run to completion although an earlier step raised.
Completed_Any(step, raisedAt) == TRUE

\* A step has run to completion when no earlier or equal step raised.
Completed(step, raisedAt) == raisedAt = 0 \/ StepIndex(step) < raisedAt

\* A setup_memory that keeps a memory object the pipeline already has.
SetupMemory_Reuse(old, id) == IF old # 0 THEN old ELSE id

\* setup_memory: a new, empty memory object replaces the one held.
SetupMemory(old, id) == id

\* create_qa_chain: ConversationalRetrievalChain.from_llm over the fields as
\* they are when the chain is built.
CreateQAChain(id, store, mem, model) ==
    [att |-> id, retriever |-> store, memory |-> mem, llm |-> model]

\* The heap after the references become mem and chain: a memory object that
\* neither the pipeline nor its chain refers to any more is unreachable and
\* is collected.
Collect(heap, mem, chain) ==
    [m \in DOMAIN heap |-> IF m = mem \/ m = chain.memory THEN heap[m] ELSE <<>>]

\* get_conversation_history
GetConversationHistory(mem, heap) ==
    IF mem # 0 /\ heap[mem] # <<>> THEN heap[mem] ELSE <<>>

History == GetConversationHistory(memory, chat_memory)

Call(op, outcome) ==
    [NoCall EXCEPT !.op = op, !.outcome = outcome]

InitializePipelineFromText(text, fail) ==
    LET id == attempts + 1
        r == RaisedAt(text, fail)
        emb == IF Completed("embeddings", r) THEN id ELSE embeddings
        store == IF Completed("vectorstore", r)
                 THEN [origin |-> "built", att |-> id, docs |-> SplitText(text)]
                 ELSE vectorstore
        model == IF Completed("llm", r) THEN id ELSE llm
        mem == IF Completed("memory", r) THEN SetupMemory(memory, id) ELSE memory
    IN  /\ attempts < MaxAttempts
        /\ attempts' = id
        /\ embeddings' = emb
        /\ vectorstore' = store
        /\ llm' = model
        /\ memory' = mem
        /\ qa_chain' = IF Completed("chain", r)
                       THEN CreateQAChain(id, store, mem, model)
                       ELSE qa_chain
        /\ chat_memory' = Collect(IF Completed("memory", r) /\ mem = id
                                  THEN [chat_memory EXCEPT ![id] = <<>>]
                                  ELSE chat_memory,
                                  mem, qa_chain')
        /\ succeeded' = (succeeded \/ r = 0)
        /\ lastCall' = [Call("initialize", IF r = 0 THEN "returned" ELSE "raised")
                          EXCEPT !.text = text,
                                 !.failed_at = IF r = 0 THEN "none" ELSE Steps[r],
                                 !.was_ready = (qa_chain # NoChain),
                                 !.cleared = IF mem # memory THEN Len(History) ELSE 0]
        /\ UNCHANGED disk

----------------------------------------------------------------------------
(* The chain: ConversationalRetrievalChain.invoke, configured at           *)
(* create_qa_chain.  It loads the memory window, condenses the question    *)
(* with the language model when the window is not empty, searches the      *)
(* retriever, generates the answer and then saves the turn to its memory.  *)

\* A window of the last k messages instead of the last k turns.
Window_Messages(msgs, k) ==
    IF Len(msgs) <= k THEN msgs ELSE SubSeq(msgs, Len(msgs) - k + 1, Len(msgs))

\* ConversationBufferWindowMemory.load_memory_variables: messages[-2k:]
Window(msgs, k) ==
    IF Len(msgs) <= 2 * k THEN msgs ELSE SubSeq(msgs, Len(msgs) - 2 * k + 1, Len(msgs))

\* Similarity of a chunk to a question: fixed by the embedding model, which is
\* deterministic.  One question sits nearer the late chunks, the other nearer
\* the early ones.
Score(q, chunk) == IF q = "Hello" THEN chunk ELSE 0 - chunk

RemoveAt(s, i) == SubSeq(s, 1, i - 1) \o SubSeq(s, i + 1, Len(s))

\* A retriever that returns the whole index.
SimilaritySearch_All(docs, q, k) == docs

\* as_retriever(search_type="similarity", search_kwargs={"k": k}): the k best
\* chunks, best first, ties in insertion order.
RECURSIVE SimilaritySearch(_, _, _)
SimilaritySearch(docs, q, k) ==
    IF k = 0 \/ docs = <<>> THEN <<>>
    ELSE LET best == CHOOSE i \in 1..Len(docs) :
                        \A j \in 1..Len(docs) :
                            \/ Score(q, docs[i]) > Score(q, docs[j])
                            \/ Score(q, docs[i]) = Score(q, docs[j]) /\ i <= j
         IN  <<docs[best]>> \o SimilaritySearch(RemoveAt(docs, best), q, k - 1)

\* memory.save_context: the question and the answer, in that order.
SaveContext(msgs, q, answer) ==
    Append(Append(msgs, HumanMessage(q)), AIMessage(answer))

\* An invoke that saves the turn whether or not the chain's call raised.
MemoryAfterInvoke_RecordsFailed(msgs, q, answer, ok) == SaveContext(msgs, q, answer)

\* The memory of the chain after invoke: the turn is saved after the chain's
\* call has returned, and not at all when it raised.
MemoryAfterInvoke(msgs, q, answer, ok) ==
    IF ok THEN SaveContext(msgs, q, answer) ELSE msgs

\* A guard that tests the vector store instead of the chain.
QueryRejected_ByStore(chain, store) == store = NoStore

\* query, line 265: the guard that raises RuntimeError
QueryRejected(chain, store) == chain = NoChain

\* An except branch that hides the exception from its message.
ErrorResult_Generic(cause) ==
    [answer |-> <<"Sorry, I encountered an error.">>, source_documents |-> <<>>]

\* query, line 273: the result built by the except branch
ErrorResult(cause) ==
    [answer |-> <<"Sorry, I encountered an error: ", cause>>, source_documents |-> <<>>]

\* _get_chat_history: the window as "Human: ..." and "Assistant: ..." lines,
\* in the order of the messages.
GetChatHistory(msgs) ==
    [i \in DOMAIN msgs |->
        [role |-> IF msgs[i].type = "human" THEN "Human" ELSE "Assistant",
         content |-> msgs[i].content]]

Section(name, modes, docs, lines, question) ==
    [section |-> name, modes |-> modes, docs |-> docs, lines |-> lines,
     question |-> question]

\* The three response modes of the instructions of prompt_template.
ResponseModes == <<"CONVERSATIONAL INTERACTIONS", "DOCUMENT-RELATED QUESTIONS",
                   "OUT-OF-SCOPE QUESTIONS">>

\* A prompt with the conversation before the context.
ComposePrompt_HistoryFirst(docs, history, question) ==
    << Section("instructions", ResponseModes, <<>>, <<>>, ""),
       Section("chat_history", <<>>, <<>>, GetChatHistory(history), ""),
       Section("context", <<>>, docs, <<>>, ""),
       Section("question", <<>>, <<>>, <<>>, question) >>

\* prompt_template filled by the chain: the instructions, {context} (the
\* documents joined in the order given), {chat_history}, {question}.
ComposePrompt(docs, history, question) ==
    << Section("instructions", ResponseModes, <<>>, <<>>, ""),
       Section("context", <<>>, docs, <<>>, ""),
       Section("chat_history", <<>>, <<>>, GetChatHistory(history), ""),
       Section("question", <<>>, <<>>, <<>>, question) >>

\* A chain that saves the turn before it asks the language model.
ChainSteps_AppendFirst(condensing, condenseFails, searchFails, ok) ==
    (IF condensing THEN <<"condense">> ELSE <<>>)
    \o (IF condenseFails THEN <<>> ELSE <<"retrieve">>)
    \o (IF condenseFails \/ searchFails THEN <<>> ELSE <<"compose">>)
    \o (IF ok THEN <<"append">> ELSE <<>>)
    \o (IF condenseFails \/ searchFails THEN <<>> ELSE <<"generate">>)

\* ConversationalRetrievalChain.invoke: the steps it starts, in order.  The
\* question is condensed by the language model when the memory window is not
\* empty; a step that raises ends the call.
ChainSteps(condensing, condenseFails, searchFails, ok) ==
    (IF condensing THEN <<"condense">> ELSE <<>>)
    \o (IF condenseFails THEN <<>> ELSE <<"retrieve">>)
    \o (IF condenseFails \/ searchFails THEN <<>> ELSE <<"compose", "generate">>)
    \o (IF ok THEN <<"append">> ELSE <<>>)

\* A query that drops the chain when its call raised.
ChainAfterQuery_Invalidates(chain, ok) == IF ok THEN chain ELSE NoChain

\* query assigns no field: the chain stays whatever the call did.
ChainAfterQuery(chain, ok) == chain

\* query(question).  condense, search and gen are what the language model
\* (condensing the question), the retriever and the language model (answering)
\* do in this call: a member of Causes is an exception.  maxTurns bounds the
\* turns a memory object records.
QueryBounded(q, condense, search, gen, maxTurns) ==
    LET msgs == chat_memory[qa_chain.memory]
        hist == Window(msgs, MemoryK)
        condensing == hist # <<>>
        condenseFails == condensing /\ condense \in Causes
        standalone == IF condensing /\ ~condenseFails THEN condense ELSE q
        searchFails == ~condenseFails /\ search = "fail"
        docs == SimilaritySearch(qa_chain.retriever.docs, standalone, RetrieverK)
        genFails == ~condenseFails /\ ~searchFails /\ gen \in Causes
        ok == ~condenseFails /\ ~searchFails /\ ~genFails
        cause == IF condenseFails THEN condense ELSE IF searchFails THEN "index" ELSE gen
        nLLM == (IF condensing THEN 1 ELSE 0)
                + (IF ~condenseFails /\ ~searchFails THEN 1 ELSE 0)
        nSearch == IF condenseFails THEN 0 ELSE 1
        afterFailure == lastCall.op = "query"
                        /\ lastCall.failed_at \in {"condense", "generate"}
    IN
    IF QueryRejected(qa_chain, vectorstore)
    THEN /\ lastCall' = [Call("query", "raised") EXCEPT !.question = q,
                            !.error = "NotInitialized"]
         /\ UNCHANGED <<fields, chat_memory, disk, attempts, succeeded>>
    ELSE IF qa_chain = NoChain
    THEN \* None.invoke raises AttributeError inside the try
         /\ lastCall' = [Call("query", "returned") EXCEPT !.question = q,
                            !.failed_at = "invoke",
                            !.cause = "NoneType",
                            !.answer = ErrorResult("NoneType").answer,
                            !.source_documents = ErrorResult("NoneType").source_documents]
         /\ UNCHANGED <<fields, chat_memory, disk, attempts, succeeded>>
    ELSE /\ condense \in Causes => condensing
         /\ ok => Len(msgs) < 2 * maxTurns
         /\ chat_memory' = [chat_memory EXCEPT ![qa_chain.memory] =
                               MemoryAfterInvoke(msgs, q, <<gen>>, ok)]
         /\ lastCall' = [Call("query", "returned") EXCEPT
                            !.question = q,
                            !.failed_at = IF condenseFails THEN "condense"
                                          ELSE IF searchFails THEN "search"
                                          ELSE IF genFails THEN "generate" ELSE "none",
                            !.cause = IF ok THEN "none" ELSE cause,
                            !.answer = IF ok THEN <<gen>> ELSE ErrorResult(cause).answer,
                            !.source_documents =
                                IF ok THEN docs ELSE ErrorResult(cause).source_documents,
                            !.chat_history = hist,
                            !.prompt = IF condenseFails \/ searchFails THEN <<>>
                                       ELSE ComposePrompt(docs, hist, standalone),
                            !.after_failure = (ok /\ afterFailure),
                            !.trace = ChainSteps(condensing, condenseFails,
                                                 searchFails, ok),
                            !.searches = nSearch,
                            !.llm_calls = nLLM]
         /\ qa_chain' = ChainAfterQuery(qa_chain, ok)
         /\ UNCHANGED <<embeddings, vectorstore, llm, memory, disk, attempts, succeeded>>

Query(q, condense, search, gen) == QueryBounded(q, condense, search, gen, MaxTurns)

----------------------------------------------------------------------------
\* A clear that drops the last turn only.
ChatMemoryClear_LastTurn(msgs) ==
    IF Len(msgs) <= 2 THEN <<>> ELSE SubSeq(msgs, 1, Len(msgs) - 2)

\* chat_memory.clear()
ChatMemoryClear(msgs) == <<>>

\* A clear_memory that raises while the pipeline has no memory.
ClearMemory_Raising ==
    /\ chat_memory' = IF memory # 0
                      THEN [chat_memory EXCEPT ![memory] = ChatMemoryClear(@)]
                      ELSE chat_memory
    /\ lastCall' = [Call("clear_memory", IF memory # 0 THEN "returned" ELSE "raised")
                      EXCEPT !.error = IF memory # 0 THEN "none" ELSE "NotInitialized",
                             !.repeat = (lastCall.op = "clear_memory"),
                             !.cleared = (IF lastCall.op = "clear_memory"
                                          THEN lastCall.cleared ELSE 0) + Len(History)]
    /\ UNCHANGED <<fields, disk, attempts, succeeded>>

\* A clear_memory that clears by replacing the memory object (setup_memory)
\* and leaves the chain on the object it was built with.
ClearMemory_NewObject ==
    /\ memory' = IF memory # 0 THEN MaxAttempts + 1 ELSE memory
    /\ chat_memory' = chat_memory
    /\ lastCall' = [Call("clear_memory", "returned") EXCEPT
                        !.repeat = (lastCall.op = "clear_memory"),
                        !.cleared = (IF lastCall.op = "clear_memory"
                                          THEN lastCall.cleared ELSE 0) + Len(History)]
    /\ UNCHANGED <<embeddings, vectorstore, llm, qa_chain, disk, attempts, succeeded>>

\* clear_memory
ClearMemory ==
    /\ chat_memory' = IF memory # 0
                      THEN [chat_memory EXCEPT ![memory] = ChatMemoryClear(@)]
                      ELSE chat_memory
    /\ lastCall' = [Call("clear_memory", "returned") EXCEPT
                        !.repeat = (lastCall.op = "clear_memory"),
                        !.cleared = (IF lastCall.op = "clear_memory"
                                     THEN lastCall.cleared ELSE 0) + Len(History)]
    /\ UNCHANGED <<fields, disk, attempts, succeeded>>

\* FAISS.save_local: the index and its documents, in index order
SaveLocal(store) == [exists |-> TRUE, docs |-> store.docs]

\* A load_local that loses the last document of the index.
LoadLocal_DropsLast(file, emb) ==
    [origin |-> "loaded", att |-> emb,
     docs |-> SubSeq(file.docs, 1, Len(file.docs) - 1)]

\* FAISS.load_local with the pipeline's embeddings
LoadLocal(file, emb) == [origin |-> "loaded", att |-> emb, docs |-> file.docs]

\* A save_vectorstore that gives the index away once it is written.
SaveVectorstore_Releases(path) ==
    /\ disk' = IF vectorstore # NoStore
               THEN [disk EXCEPT ![path] = SaveLocal(vectorstore)]
               ELSE disk
    /\ vectorstore' = NoStore
    /\ lastCall' = [Call("save_vectorstore", "returned") EXCEPT !.path = path]
    /\ UNCHANGED <<embeddings, llm, memory, qa_chain, chat_memory, attempts, succeeded>>

\* save_vectorstore(path)
SaveVectorstore(path) ==
    /\ disk' = IF vectorstore # NoStore
               THEN [disk EXCEPT ![path] = SaveLocal(vectorstore)]
               ELSE disk
    /\ lastCall' = [Call("save_vectorstore", "returned") EXCEPT !.path = path]
    /\ UNCHANGED <<fields, chat_memory, attempts, succeeded>>

\* load_vectorstore(path)
LoadVectorstore(path) ==
    /\ vectorstore' = IF embeddings # 0 /\ disk[path].exists
                      THEN LoadLocal(disk[path], embeddings)
                      ELSE vectorstore
    /\ lastCall' = [Call("load_vectorstore", "returned") EXCEPT
                        !.path = path,
                        !.after_save = (lastCall.op = "save_vectorstore"
                                        /\ lastCall.path = path)]
    /\ UNCHANGED <<embeddings, llm, memory, qa_chain, chat_memory, disk,
                   attempts, succeeded>>

----------------------------------------------------------------------------
\* Two threads that call query on the one pipeline.
Threads == {1, 2}

\* A caller outside query.
Idle == [pc |-> "idle", question |-> "", snapshot |-> <<>>, docs |-> <<>>,
         answer |-> <<>>]

\* __init__
InitPipeline ==
    /\ embeddings = 0
    /\ vectorstore = NoStore
    /\ llm = 0
    /\ memory = 0
    /\ qa_chain = NoChain
    /\ chat_memory = [m \in 1..(MaxAttempts + 1) |-> <<>>]
    /\ disk = [p \in Paths |-> NoFile]
    /\ attempts = 0
    /\ succeeded = FALSE
    /\ lastCall = NoCall

\* extracted_text and extracted_text_content are None until a text is stored;
\* a stored text is never empty, so the empty text stands for None.
NoText == <<>>

NoAction == [action |-> "none", outcome |-> "none", failed_at |-> "none",
             temp_path |-> 0, was_initialized |-> FALSE]

\* init_session_state, and no upload handled yet
InitApp ==
    /\ session_state = [rag_pipeline |-> 0, rag_initialized |-> FALSE,
                        chat_history |-> <<>>, extracted_text |-> NoText,
                        extracted_text_content |-> NoText]
    /\ temp_files = {}
    /\ uploads = 0
    /\ lastAction = NoAction

InitCallers ==
    /\ holder = 0
    /\ inflight = [t \in Threads |-> Idle]
    /\ conditioned = <<>>

\* One caller, no lock.
Init == InitPipeline /\ InitCallers /\ InitApp /\ mutex = FALSE

Next ==
    \/ /\ \E text \in Texts, fail \in FailPoints : InitializePipelineFromText(text, fail)
       /\ UNCHANGED <<callers, app>>
    \/ /\ \E q \in Questions, env \in Envs : Query(q, env.condense, env.search, env.gen)
       /\ UNCHANGED <<callers, app>>
    \/ ClearMemory /\ UNCHANGED <<callers, app>>
    \/ /\ \E path \in Paths : SaveVectorstore(path)
       /\ UNCHANGED <<callers, app>>
    \/ /\ \E path \in Paths : LoadVectorstore(path)
       /\ UNCHANGED <<callers, app>>

Spec == Init /\ [][Next]_vars

\* One pipeline, initialized once, in a conversation long enough to overflow the
\* memory window.
NextLong ==
    \/ /\ attempts = 0
       /\ \E text \in LongTexts : InitializePipelineFromText(text, "none")
       /\ UNCHANGED <<callers, app>>
    \/ /\ \E q \in Questions, env \in Envs :
              QueryBounded(q, env.condense, env.search, env.gen, MaxWindowTurns)
       /\ UNCHANGED <<callers, app>>
    \/ ClearMemory /\ UNCHANGED <<callers, app>>

SpecLong == Init /\ [][NextLong]_vars

\* The same pipeline, queried with the empty question as well.
EmptyQuestion == ""

NextAnyQuestion ==
    \/ Next
    \/ /\ \E env \in Envs : Query(EmptyQuestion, env.condense, env.search, env.gen)
       /\ UNCHANGED <<callers, app>>

SpecAnyQuestion == Init /\ [][NextAnyQuestion]_vars

----------------------------------------------------------------------------
(* Two threads calling query on one pipeline.  query holds no lock; a call *)
(* reads the memory window when the chain starts, waits for the language   *)
(* model and the retriever, and appends its turn when the chain ends.      *)
(* With mutex the callers wrap each query call in one lock of their own.   *)

\* Callers that ignore the lock.
CanEnter_Unlocked(locking, h) == TRUE

\* Taking the callers' lock: always possible when they use none.
CanEnter(locking, h) == locking => h = 0

\* query up to the start of the chain: the guard of query, then the chain
\* loads its memory window.
BeginQuery(t, q) ==
    /\ inflight[t].pc = "idle"
    /\ CanEnter(mutex, holder)
    /\ IF QueryRejected(qa_chain, vectorstore)
       THEN /\ lastCall' = [Call("query", "raised") EXCEPT !.question = q,
                               !.error = "NotInitialized"]
            /\ UNCHANGED <<inflight, holder>>
       ELSE /\ Len(chat_memory[qa_chain.memory])
                  + 2 * Cardinality({u \in Threads : inflight[u].pc # "idle"})
                < 2 * MaxConcurrentTurns
            /\ inflight' = [inflight EXCEPT ![t] =
                               [Idle EXCEPT !.pc = "invoked",
                                            !.question = q,
                                            !.snapshot =
                                                Window(chat_memory[qa_chain.memory],
                                                       MemoryK)]]
            /\ holder' = IF mutex THEN t ELSE holder
            /\ UNCHANGED lastCall
    /\ UNCHANGED <<fields, chat_memory, disk, attempts, succeeded, mutex, conditioned, app>>

\* The chain between loading the memory and saving the turn: condense the
\* question, search, generate.  An exception ends the call in the except
\* branch of query.
Generate(t, condense, search, gen) ==
    LET call == inflight[t]
        hist == call.snapshot
        condensing == hist # <<>>
        condenseFails == condensing /\ condense \in Causes
        standalone == IF condensing /\ ~condenseFails THEN condense ELSE call.question
        searchFails == ~condenseFails /\ search = "fail"
        docs == SimilaritySearch(qa_chain.retriever.docs, standalone, RetrieverK)
        genFails == ~condenseFails /\ ~searchFails /\ gen \in Causes
        ok == ~condenseFails /\ ~searchFails /\ ~genFails
        cause == IF condenseFails THEN condense ELSE IF searchFails THEN "index" ELSE gen
    IN  /\ call.pc = "invoked"
        /\ condense \in Causes => condensing
        /\ IF ok
           THEN /\ inflight' = [inflight EXCEPT ![t] =
                                   [call EXCEPT !.pc = "answered", !.docs = docs,
                                                !.answer = <<gen>>]]
                /\ UNCHANGED <<lastCall, holder>>
           ELSE /\ inflight' = [inflight EXCEPT ![t] = Idle]
                /\ holder' = 0
                /\ lastCall' = [Call("query", "returned") EXCEPT
                                   !.question = call.question,
                                   !.failed_at = IF condenseFails THEN "condense"
                                                 ELSE IF searchFails THEN "search"
                                                 ELSE "generate",
                                   !.cause = cause,
                                   !.answer = ErrorResult(cause).answer,
                                   !.source_documents = ErrorResult(cause).source_documents,
                                   !.chat_history = hist]
        /\ UNCHANGED <<fields, chat_memory, disk, attempts, succeeded, mutex, conditioned, app>>

\* The end of the chain and of query: save_context on the memory as it is
\* now, then return the answer.
SaveContextAndReturn(t) ==
    LET call == inflight[t]
        msgs == chat_memory[qa_chain.memory]
    IN  /\ call.pc = "answered"
        /\ chat_memory' = [chat_memory EXCEPT ![qa_chain.memory] =
                              MemoryAfterInvoke(msgs, call.question, call.answer, TRUE)]
        /\ conditioned' = Append(conditioned, call.snapshot)
        /\ inflight' = [inflight EXCEPT ![t] = Idle]
        /\ holder' = 0
        /\ lastCall' = [Call("query", "returned") EXCEPT
                           !.question = call.question,
                           !.answer = call.answer,
                           !.source_documents = call.docs,
                           !.chat_history = call.snapshot]
        /\ UNCHANGED <<fields, disk, attempts, succeeded, mutex, app>>

\* The callers agree on using the lock, or on not using it, before they start.
InitConcurrent == InitPipeline /\ InitCallers /\ InitApp /\ mutex \in BOOLEAN

NextConcurrent ==
    \/ /\ attempts = 0
       /\ \E text \in Texts : InitializePipelineFromText(text, "none")
       /\ UNCHANGED <<callers, app>>
    \/ \E t \in Threads, q \in Questions : BeginQuery(t, q)
    \/ \E t \in Threads, env \in Envs : Generate(t, env.condense, env.search, env.gen)
    \/ \E t \in Threads : SaveContextAndReturn(t)

SpecConcurrent == InitConcurrent /\ [][NextConcurrent]_vars

----------------------------------------------------------------------------
(* The application (src/streamlit_app.py): one browser session.  The       *)
(* pipeline variables are the state of the RAGPipeline object that         *)
(* session_state.rag_pipeline refers to; a pipeline the application         *)
(* creates and drops within one action never shows in a state.             *)

\* An uploaded document is the text its parsing gives: block 0 is whitespace.
Documents == { <<0>>, <<1>>, <<2, 0, 3>> }

\* What the collaborators of a query asked in the chat do: as Envs, with one
\* cause of failure.
ChatEnvs == {env \in Envs : env.condense # "quota" /\ env.gen # "quota"}

\* Where the handling of an upload fails: creating the temporary file, writing
\* the upload into it, parsing the document, or a step of initialize.
UploadFailPoints == {"create", "write", "extract"} \cup FailPoints

\* save_uploaded_file: the path returned (0: None) and whether a temporary
\* file of that name was created.  NamedTemporaryFile(delete=False) leaves the
\* file in place when the with block ends, also when write raised.
SaveUploadedFile(name, fail) ==
    [path |-> IF fail \in {"create", "write"} THEN 0 ELSE name,
     created |-> fail # "create"]

\* The temporary files after the handling of an upload: the handler unlinks
\* temp_path on success and in its except branch, and returns at once when
\* save_uploaded_file returned None.
TempFilesAfter(files, saved, name) ==
    IF saved.created /\ saved.path = 0 THEN files \cup {name} ELSE files

\* DocumentExtractor.extract_from_document
ExtractFromDocument(doc, fail) ==
    [raised |-> fail = "extract" \/ IsBlank(doc), text |-> doc]

\* A handler that marks the session initialized whatever came of the upload.
SessionAfterProcess_AlwaysInitialized(ss, ok, id, text) ==
    IF ok
    THEN [ss EXCEPT !.rag_pipeline = id, !.rag_initialized = TRUE,
                    !.extracted_text = text, !.chat_history = <<>>]
    ELSE [ss EXCEPT !.rag_initialized = TRUE]

\* A handler that empties the chat before it knows how the upload ends.
SessionAfterProcess_ClearsChat(ss, ok, id, text) ==
    IF ok
    THEN [ss EXCEPT !.rag_pipeline = id, !.rag_initialized = TRUE,
                    !.extracted_text = text, !.chat_history = <<>>]
    ELSE [ss EXCEPT !.chat_history = <<>>]

\* process_document_for_rag: the four assignments to session_state, made only
\* after initialize_pipeline_from_text returned.
SessionAfterProcess(ss, ok, id, text) ==
    IF ok
    THEN [ss EXCEPT !.rag_pipeline = id, !.rag_initialized = TRUE,
                    !.extracted_text = text, !.chat_history = <<>>]
    ELSE ss

\* process_document_for_rag(uploaded_file), the "Process Document" button
ProcessDocumentForRag(doc, fail) ==
    LET name == uploads + 1
        saved == SaveUploadedFile(name, fail)
        extracted == ExtractFromDocument(doc, fail)
        reachesInit == saved.path # 0 /\ ~extracted.raised
        r == RaisedAt(extracted.text, IF fail \in FailPoints THEN fail ELSE "none")
        failedAt == IF saved.path = 0 THEN fail
                    ELSE IF extracted.raised THEN "extract"
                    ELSE IF r # 0 THEN Steps[r] ELSE "none"
        ok == failedAt = "none"
        id == attempts + 1
        store == [origin |-> "built", att |-> id, docs |-> SplitText(extracted.text)]
        mem == SetupMemory(0, id)
    IN  /\ uploads < MaxUploads
        /\ reachesInit => attempts < MaxAttempts
        /\ uploads' = name
        /\ temp_files' = TempFilesAfter(temp_files, saved, name)
        /\ attempts' = IF reachesInit THEN id ELSE attempts
        /\ session_state' = SessionAfterProcess(session_state, ok, id, extracted.text)
        /\ lastAction' = [NoAction EXCEPT
                             !.action = "process",
                             !.outcome = IF ok THEN "done" ELSE "failed",
                             !.failed_at = failedAt,
                             !.temp_path = IF saved.created THEN name ELSE 0,
                             !.was_initialized = session_state.rag_initialized]
        /\ IF ok
           THEN \* rag_pipeline = RAGPipeline(); initialize_pipeline_from_text
                /\ embeddings' = id
                /\ vectorstore' = store
                /\ llm' = id
                /\ memory' = mem
                /\ qa_chain' = CreateQAChain(id, store, mem, id)
                /\ chat_memory' = Collect([chat_memory EXCEPT ![mem] = <<>>],
                                          mem, qa_chain')
                /\ succeeded' = TRUE
                /\ lastCall' = [Call("initialize", "returned") EXCEPT
                                   !.text = extracted.text]
           ELSE UNCHANGED <<fields, chat_memory, succeeded, lastCall>>
        /\ UNCHANGED <<disk, callers>>

\* extract_text_from_document(uploaded_file), the "Extract Text" button
ExtractTextFromDocument(doc, fail) ==
    LET name == uploads + 1
        saved == SaveUploadedFile(name, fail)
        extracted == ExtractFromDocument(doc, fail)
        failedAt == IF saved.path = 0 THEN fail
                    ELSE IF extracted.raised THEN "extract" ELSE "none"
    IN  /\ uploads < MaxUploads
        /\ uploads' = name
        /\ temp_files' = TempFilesAfter(temp_files, saved, name)
        /\ session_state' = IF failedAt = "none"
                            THEN [session_state EXCEPT
                                     !.extracted_text_content = extracted.text]
                            ELSE session_state
        /\ lastAction' = [NoAction EXCEPT
                             !.action = "extract",
                             !.outcome = IF failedAt = "none" THEN "done" ELSE "failed",
                             !.failed_at = failedAt,
                             !.temp_path = IF saved.created THEN name ELSE 0,
                             !.was_initialized = session_state.rag_initialized]
        /\ UNCHANGED <<fields, chat_memory, disk, attempts, succeeded, lastCall, callers>>

\* A chat that shows only the questions that were answered.
ChatHistoryAfterAsk_AnsweredOnly(history, q, answer, failed) ==
    IF failed THEN history ELSE Append(history, [question |-> q, answer |-> answer])

\* render_chat_interface: chat_history.append((user_question, answer))
ChatHistoryAfterAsk(history, q, answer, failed) ==
    Append(history, [question |-> q, answer |-> answer])

\* render_chat_interface with a question typed into the chat input, which is
\* rendered only while rag_initialized; an empty input submits nothing.
AskQuestion(q, condense, search, gen) ==
    /\ session_state.rag_initialized
    /\ q # ""
    /\ Len(session_state.chat_history) < MaxChat
    /\ IF session_state.rag_pipeline = 0
       THEN \* None.query raises AttributeError, caught by the handler
            /\ session_state' = [session_state EXCEPT !.chat_history =
                    ChatHistoryAfterAsk(@, q, ErrorResult("NoneType").answer, TRUE)]
            /\ lastAction' = [NoAction EXCEPT !.action = "ask", !.outcome = "failed",
                                 !.failed_at = "query",
                                 !.was_initialized = TRUE]
            /\ UNCHANGED <<fields, chat_memory, disk, attempts, succeeded, lastCall>>
       ELSE /\ QueryBounded(q, condense, search, gen, MaxChat)
            /\ LET raised == lastCall'.outcome = "raised"
                   answer == IF raised THEN ErrorResult(lastCall'.error).answer
                             ELSE lastCall'.answer
               IN  /\ session_state' = [session_state EXCEPT !.chat_history =
                           ChatHistoryAfterAsk(@, q, answer,
                                               raised \/ lastCall'.failed_at # "none")]
                   /\ lastAction' = [NoAction EXCEPT
                                        !.action = "ask",
                                        !.outcome = IF raised THEN "failed" ELSE "done",
                                        !.failed_at = IF raised THEN "query" ELSE "none",
                                        !.was_initialized = TRUE]
    /\ UNCHANGED <<temp_files, uploads, callers>>

\* render_rag_page: st.session_state.chat_history = []
ChatHistoryAfterClear(history) == <<>>

\* The "Clear Memory" button, rendered only while rag_initialized
ClearMemoryButton ==
    /\ session_state.rag_initialized
    /\ IF session_state.rag_pipeline # 0
       THEN ClearMemory
       ELSE UNCHANGED <<fields, chat_memory, disk, attempts, succeeded, lastCall>>
    /\ session_state' = [session_state EXCEPT !.chat_history = ChatHistoryAfterClear(@)]
    /\ lastAction' = [NoAction EXCEPT !.action = "clear", !.outcome = "done",
                         !.was_initialized = TRUE]
    /\ UNCHANGED <<temp_files, uploads, callers>>

NextApp ==
    \/ \E doc \in Documents, fail \in UploadFailPoints : ProcessDocumentForRag(doc, fail)
    \/ \E doc \in Documents, fail \in {"none", "create", "write", "extract"} :
           ExtractTextFromDocument(doc, fail)
    \/ \E q \in Questions, env \in ChatEnvs :
           AskQuestion(q, env.condense, env.search, env.gen)
    \/ ClearMemoryButton

SpecApp == Init /\ [][NextApp]_vars

----------------------------------------------------------------------------
(* Claims *)

\* A step of the named operation: every action records its own name.
Step(op) == lastCall'.op = op

Ready == qa_chain # NoChain

ResponderFailed(call) == call.failed_at \in {"condense", "generate"}

Embeds(answer, cause) == \E i \in DOMAIN answer : answer[i] = cause

\* C1: while no initialize call has succeeded, every query raises the
\* not-initialized error, invokes neither the retriever nor the language model
\* and changes no field of the pipeline.
C1_QueryBeforeInitialize ==
    [][ (~succeeded /\ Step("query")) =>
            /\ lastCall'.outcome = "raised"
            /\ lastCall'.error = "NotInitialized"
            /\ lastCall'.searches = 0
            /\ lastCall'.llm_calls = 0
            /\ fields' = fields
            /\ chat_memory' = chat_memory
            /\ disk' = disk ]_vars

\* C1 happens: a query rejected after an initialize that failed half-way.
C1_Witness ==
    /\ ~succeeded
    /\ vectorstore # NoStore
    /\ lastCall.op = "query"
    /\ lastCall.error = "NotInitialized"

\* C2: after every initialize call that raises, a following query is rejected
\* as not initialized, whether or not the pipeline accepted queries before.
C2_FailedInitializeLeavesUninitialized ==
    [][ (Step("initialize") /\ lastCall'.outcome = "raised") =>
            QueryRejected(qa_chain', vectorstore') ]_vars

\* C3: after an initialize call that raises, the pipeline holds no component
\* created by that call.
C3_FailedInitializeLeavesNothing ==
    [][ (Step("initialize") /\ lastCall'.outcome = "raised") =>
            /\ embeddings' # attempts'
            /\ vectorstore'.att # attempts'
            /\ llm' # attempts'
            /\ memory' # attempts' ]_vars

\* C4: a query whose language-model call fails leaves every memory and the
\* index as they were: history() returns the same messages as before.
C4_FailedTurnNotRecorded ==
    [][ (Step("query") /\ ResponderFailed(lastCall')) =>
            /\ chat_memory' = chat_memory
            /\ memory' = memory
            /\ vectorstore' = vectorstore
            /\ qa_chain' = qa_chain
            /\ GetConversationHistory(memory', chat_memory') = History ]_vars

\* C4 happens: the language model timed out on a pipeline whose history holds
\* a turn.
C4_Witness ==
    /\ lastCall.op = "query"
    /\ lastCall.failed_at = "generate"
    /\ lastCall.cause = "timeout"
    /\ History # <<>>

\* C5: a query whose language-model call fails returns normally, with an
\* answer that is the error text embedding the cause and no source documents.
C5_FailedTurnReturnsErrorAnswer ==
    [][ (Step("query") /\ ResponderFailed(lastCall')) =>
            /\ lastCall'.outcome = "returned"
            /\ lastCall'.error = "none"
            /\ lastCall'.cause \in Causes
            /\ Embeds(lastCall'.answer, lastCall'.cause)
            /\ lastCall'.answer \notin {<<a>> : a \in Answers}
            /\ lastCall'.source_documents = <<>> ]_vars

\* C5 happens: an error answer for a timeout while condensing the question.
C5_Witness ==
    /\ lastCall.op = "query"
    /\ lastCall.failed_at = "condense"
    /\ lastCall.cause = "timeout"
    /\ lastCall.outcome = "returned"

\* C6: after every query that succeeds, history() is the history before the
\* call followed by one turn: the question asked and the answer returned.
C6_SuccessfulTurnRecorded ==
    [][ (Step("query") /\ lastCall'.outcome = "returned"
                       /\ lastCall'.failed_at = "none") =>
            LET after == GetConversationHistory(memory', chat_memory') IN
            /\ Len(after) = Len(History) + 2
            /\ SubSeq(after, 1, Len(History)) = History
            /\ after[Len(after) - 1] = HumanMessage(lastCall'.question)
            /\ after[Len(after)] = AIMessage(lastCall'.answer) ]_vars

\* C7 as stated: clear_memory before any successful initialize raises the
\* not-initialized error.
C7_ClearBeforeInitializeRaises ==
    [][ (~succeeded /\ Step("clear_memory")) =>
            /\ lastCall'.outcome = "raised"
            /\ lastCall'.error = "NotInitialized" ]_vars

\* C7 amended: clear_memory before any successful initialize returns normally
\* and changes no field of the pipeline.
C7_ClearBeforeInitializeIsNoOp ==
    [][ (~succeeded /\ Step("clear_memory")) =>
            /\ lastCall'.outcome = "returned"
            /\ lastCall'.error = "none"
            /\ fields' = fields
            /\ chat_memory' = chat_memory
            /\ disk' = disk ]_vars

\* C7 happens: clear_memory returned on a pipeline that was never initialized
\* with success, once with no memory object at all.
C7_Witness ==
    /\ ~succeeded
    /\ memory = 0
    /\ lastCall.op = "clear_memory"
    /\ lastCall.outcome = "returned"

\* C8: in Ready, clear_memory leaves history() empty, and a clear_memory that
\* directly follows another leaves history() empty and the pipeline as the
\* first one left it.
C8_ClearIsIdempotent ==
    [][ (Ready /\ Step("clear_memory")) =>
            /\ GetConversationHistory(memory', chat_memory') = <<>>
            /\ lastCall'.repeat =>
                   /\ fields' = fields
                   /\ chat_memory' = chat_memory
                   /\ disk' = disk ]_vars

\* C8 happens: two clear_memory calls in a row, the first of which removed
\* recorded turns.
C8_Witness ==
    /\ Ready
    /\ lastCall.op = "clear_memory"
    /\ lastCall.repeat
    /\ lastCall.cleared > 0
    /\ History = <<>>

\* C9: in Ready, clear_memory changes nothing but the messages of the
\* pipeline's memory object: the index, the embedder, the language model, the
\* chain and the memory reference stay, and the chain retrieves as before.
C9_ClearChangesOnlyMemory ==
    [][ (Ready /\ Step("clear_memory")) =>
            /\ vectorstore' = vectorstore
            /\ embeddings' = embeddings
            /\ llm' = llm
            /\ qa_chain' = qa_chain
            /\ memory' = memory
            /\ disk' = disk
            /\ \A m \in DOMAIN chat_memory :
                   m # memory => chat_memory'[m] = chat_memory[m]
            /\ \A q \in Questions :
                   SimilaritySearch(qa_chain'.retriever.docs, q, RetrieverK)
                     = SimilaritySearch(qa_chain.retriever.docs, q, RetrieverK) ]_vars

\* C9 happens: a clear_memory that removed turns from a Ready pipeline.
C9_Witness ==
    /\ Ready
    /\ lastCall.op = "clear_memory"
    /\ ~lastCall.repeat
    /\ lastCall.cleared > 0
    /\ vectorstore.docs # <<>>

\* C10: an initialize that succeeds on a Ready pipeline leaves it Ready, with
\* an index built from the new text alone, which the chain retrieves from, and
\* with a new empty memory, which the chain reads its prompt history from.
C10_ReinitializeReplaces ==
    [][ (Ready /\ Step("initialize") /\ lastCall'.outcome = "returned") =>
            /\ qa_chain' # NoChain
            /\ vectorstore' = [origin |-> "built", att |-> attempts',
                               docs |-> SplitText(lastCall'.text)]
            /\ qa_chain'.retriever = vectorstore'
            /\ \A q \in Questions :
                   \A i \in DOMAIN SimilaritySearch(qa_chain'.retriever.docs, q, RetrieverK) :
                       \E j \in DOMAIN SplitText(lastCall'.text) :
                           SimilaritySearch(qa_chain'.retriever.docs, q, RetrieverK)[i]
                             = SplitText(lastCall'.text)[j]
            /\ qa_chain'.memory = memory'
            /\ memory' # memory
            /\ Window(chat_memory'[qa_chain'.memory], MemoryK) = <<>>
            /\ GetConversationHistory(memory', chat_memory') = <<>> ]_vars

\* C10 happens: a successful initialize on a Ready pipeline whose history held
\* turns and whose index held another document.
C10_Witness ==
    /\ lastCall.op = "initialize"
    /\ lastCall.outcome = "returned"
    /\ lastCall.was_ready
    /\ lastCall.cleared > 0
    /\ vectorstore.docs = <<1>>
    /\ disk["idx"].docs = <<2, 3>>

\* C11: a query in Ready whose similarity search fails returns the error
\* answer to the caller, leaves every memory and the index as they were, and
\* leaves the pipeline accepting queries.
C11_SearchFailureIsolated ==
    [][ (Ready /\ Step("query") /\ lastCall'.failed_at = "search") =>
            /\ lastCall'.outcome = "returned"
            /\ Embeds(lastCall'.answer, lastCall'.cause)
            /\ lastCall'.source_documents = <<>>
            /\ chat_memory' = chat_memory
            /\ memory' = memory
            /\ vectorstore' = vectorstore
            /\ qa_chain' = qa_chain
            /\ ~QueryRejected(qa_chain', vectorstore') ]_vars

\* C11 happens: a search failed on a pipeline whose memory holds a turn.
C11_Witness ==
    /\ lastCall.op = "query"
    /\ lastCall.failed_at = "search"
    /\ lastCall.cause = "index"
    /\ History # <<>>

C14_BlankTextIsIngestError ==
    [][ /\ (Step("initialize") /\ IsBlank(lastCall'.text)) =>
               /\ SplitText(lastCall'.text) = <<>>
               /\ lastCall'.outcome = "raised"
               /\ qa_chain' = qa_chain
        /\ qa_chain' # NoChain => qa_chain'.retriever.docs # <<>> ]_vars

\* C14 happens: an initialize with whitespace raised while building the index.
C14_Witness ==
    /\ lastCall.op = "initialize"
    /\ lastCall.text = <<0>>
    /\ lastCall.outcome = "raised"
    /\ lastCall.failed_at = "vectorstore"
    /\ qa_chain = NoChain

\* C17 as stated: in Ready, none of query, clear_memory, save_vectorstore and
\* load_vectorstore changes the chunks of the index the pipeline holds.
C17_IndexReadOnly ==
    [][ (Ready /\ lastCall'.op \in {"query", "clear_memory", "save_vectorstore",
                                    "load_vectorstore"}) =>
            vectorstore'.docs = vectorstore.docs ]_vars

\* C17 amended: in Ready, query, clear_memory and save_vectorstore leave the
\* index the pipeline holds as it is; load_vectorstore leaves it or replaces
\* it by the index stored at the path; none of the four changes the retriever
\* of the chain.
C17_IndexChangedOnlyByLoad ==
    [][ Ready =>
            /\ lastCall'.op \in {"query", "clear_memory", "save_vectorstore"} =>
                   /\ vectorstore' = vectorstore
                   /\ qa_chain'.retriever = qa_chain.retriever
            /\ Step("load_vectorstore") =>
                   /\ qa_chain'.retriever = qa_chain.retriever
                   /\ \/ vectorstore' = vectorstore
                      \/ vectorstore' = LoadLocal(disk[lastCall'.path], embeddings) ]_vars

\* C17 happens: in Ready, a load put an index of another document in place.
C17_Witness ==
    /\ Ready
    /\ lastCall.op = "load_vectorstore"
    /\ vectorstore.origin = "loaded"
    /\ vectorstore.docs # qa_chain.retriever.docs

C13_EmptyQuestionRejected ==
    [][ (Ready /\ Step("query") /\ lastCall'.question = EmptyQuestion) =>
            /\ lastCall'.outcome = "raised"
            /\ lastCall'.error = "InvalidArgument"
            /\ lastCall'.searches = 0
            /\ lastCall'.llm_calls = 0
            /\ chat_memory' = chat_memory ]_vars

Min(a, b) == IF a <= b THEN a ELSE b

\* The lines of the n-th turn of a memory, as the prompt shows them.
TurnLines(msgs, n) ==
    << [role |-> "Human", content |-> msgs[2 * n - 1].content],
       [role |-> "Assistant", content |-> msgs[2 * n].content] >>

\* C15: the conversation in the prompt of a query is the last min(5, n) of the
\* n turns the chain's memory holds, oldest first, and nothing older.
C15_PromptHistoryIsWindow ==
    [][ (Ready /\ Step("query") /\ lastCall'.prompt # <<>>) =>
            LET msgs == chat_memory[qa_chain.memory]
                n == Len(msgs) \div 2
                m == Min(5, n)
                lines == lastCall'.prompt[3].lines
            IN  /\ Len(lines) = 2 * m
                /\ \A i \in 1..m :
                       SubSeq(lines, 2 * i - 1, 2 * i) = TurnLines(msgs, n - m + i) ]_vars

\* C15 happens: a prompt composed while the memory held more than five turns.
C15_Witness ==
    /\ lastCall.op = "query"
    /\ lastCall.prompt # <<>>
    /\ Len(lastCall.prompt[3].lines) = 10
    /\ Len(chat_memory[qa_chain.memory]) >= 14

\* C19: a query whose search succeeds retrieves min(5, n) chunks of an index of
\* n chunks: two of an index of two, five of an index of six.
C19_RetrievedCount ==
    [][ (Ready /\ Step("query")) =>
            LET n == Len(qa_chain.retriever.docs)
            IN  /\ lastCall'.prompt # <<>> =>
                       Len(lastCall'.prompt[2].docs) = Min(5, n)
                /\ lastCall'.failed_at = "none" =>
                       Len(lastCall'.source_documents) = Min(5, n) ]_vars

\* C19 happens: a query answered over an index of six chunks.
C19_Witness ==
    /\ lastCall.op = "query"
    /\ lastCall.failed_at = "none"
    /\ Len(qa_chain.retriever.docs) = 6
    /\ Len(lastCall.source_documents) = 5

\* C20 as stated: every prompt is the instructions with the three modes, the
\* retrieved chunks, the conversation, and the question the caller asked, in
\* that order.
C20_PromptEndsWithCallersQuestion ==
    [][ (Ready /\ Step("query") /\ lastCall'.prompt # <<>>) =>
            /\ [i \in 1..4 |-> lastCall'.prompt[i].section]
                   = <<"instructions", "context", "chat_history", "question">>
            /\ lastCall'.prompt[4].question = lastCall'.question ]_vars

\* C20 amended: every prompt is the instructions with the three modes, the
\* retrieved chunks best first, the conversation oldest first, and a question,
\* in that order; the question is the caller's when the conversation is
\* empty, and the standalone question of the language model otherwise.
C20_PromptSectionOrder ==
    [][ (Ready /\ Step("query") /\ lastCall'.prompt # <<>>) =>
            LET prompt == lastCall'.prompt
                asked == prompt[4].question
                docs == prompt[2].docs
                msgs == chat_memory[qa_chain.memory]
            IN  /\ Len(prompt) = 4
                /\ [i \in 1..4 |-> prompt[i].section]
                       = <<"instructions", "context", "chat_history", "question">>
                /\ Len(prompt[1].modes) = 3
                /\ docs # <<>>
                /\ \A i, j \in DOMAIN docs :
                       i < j => Score(asked, docs[i]) >= Score(asked, docs[j])
                /\ lastCall'.failed_at = "none" => lastCall'.source_documents = docs
                /\ \A i \in DOMAIN prompt[3].lines :
                       /\ prompt[3].lines[i].content
                              = msgs[Len(msgs) - Len(prompt[3].lines) + i].content
                       /\ prompt[3].lines[i].role
                              = (IF i % 2 = 1 THEN "Human" ELSE "Assistant")
                /\ (msgs = <<>>) = (prompt[3].lines = <<>>)
                /\ IF msgs = <<>> THEN asked = lastCall'.question
                                  ELSE asked \in Questions ]_vars

\* C20 happens: a prompt with a conversation in it, ending with a standalone
\* question that is not the question the caller asked.
C20_Witness ==
    /\ lastCall.op = "query"
    /\ lastCall.prompt # <<>>
    /\ lastCall.prompt[3].lines # <<>>
    /\ lastCall.prompt[4].question # lastCall.question
    /\ Len(lastCall.prompt[2].docs) = 5

\* Every turn of the chain's memory was answered from the window of the turns
\* stored before it.
Consistent ==
    \A i \in DOMAIN conditioned :
        conditioned[i] = Window(SubSeq(chat_memory[qa_chain.memory], 1, 2 * (i - 1)),
                                MemoryK)

\* C16: while the callers wrap every query in one lock, every turn in the
\* memory was answered from the turns stored before it; without the lock two
\* queries can read the same memory window and both append (the witness).
C16_SerializedQueriesConsistent ==
    mutex => /\ Consistent
             /\ Cardinality({t \in Threads : inflight[t].pc # "idle"}) <= 1

\* C16 happens: without a lock, two turns stored one after the other were both
\* answered from the empty memory.
C16_Witness ==
    /\ ~mutex
    /\ Len(conditioned) >= 2
    /\ conditioned[1] = conditioned[2]
    /\ Len(chat_memory[qa_chain.memory]) >= 4
    /\ ~Consistent

\* The steps of one query as the specification orders them.
QuerySteps == <<"retrieve", "compose", "generate", "append">>

IsPrefix(s, t) == Len(s) <= Len(t) /\ s = SubSeq(t, 1, Len(s))

\* C21 as stated: a query starts its steps in the order retrieve, compose,
\* generate, append, and nothing else before them.
C21_RetrieveIsFirstStep ==
    [][ (Ready /\ Step("query")) => IsPrefix(lastCall'.trace, QuerySteps) ]_vars

\* C21 amended: a query whose memory window is not empty first has the
\* language model condense the question; then every query retrieves, composes
\* the prompt, asks the language model for the answer and appends, in that
\* order; the memory changes only by the append of a query whose answering
\* call returned, and the conversation in the prompt is made of turns stored
\* before the query.
C21_QueryStepOrder ==
    [][ (Ready /\ Step("query")) =>
            LET tr == lastCall'.trace
                msgs == chat_memory[qa_chain.memory]
                lines == IF lastCall'.prompt = <<>> THEN <<>>
                         ELSE lastCall'.prompt[3].lines
            IN  /\ IsPrefix(SelectSeq(tr, LAMBDA x : x # "condense"), QuerySteps)
                /\ \A i \in DOMAIN tr : tr[i] = "condense" => i = 1
                /\ (tr # <<>> /\ tr[1] = "condense") = (msgs # <<>>)
                /\ (tr # <<>> /\ tr[Len(tr)] = "append") = (lastCall'.failed_at = "none")
                /\ (chat_memory' # chat_memory) = (lastCall'.failed_at = "none")
                /\ lastCall'.failed_at = "none" =>
                       /\ lastCall'.answer \in {<<a>> : a \in Answers}
                       /\ chat_memory'[qa_chain.memory]
                              = SaveContext(msgs, lastCall'.question, lastCall'.answer)
                /\ (lastCall'.prompt # <<>>) = (\E i \in DOMAIN tr : tr[i] = "compose")
                /\ Len(lines) <= Len(msgs)
                /\ \A i \in DOMAIN lines :
                       lines[i].content = msgs[Len(msgs) - Len(lines) + i].content ]_vars

\* C21 happens: a query over a memory of one turn ran all five steps.
C21_Witness ==
    /\ lastCall.op = "query"
    /\ lastCall.trace = <<"condense", "retrieve", "compose", "generate", "append">>
    /\ Len(lastCall.prompt[3].lines) = 2
    /\ Len(chat_memory[qa_chain.memory]) = 4

\* The number of initialize's step that assigns a field.
EmbeddingsStep == 1
VectorstoreStep == 3
LlmStep == 4
MemoryStep == 5
ChainStep == 6

\* C22: an initialize that raises at step k has assigned the fields of the
\* steps before k, in the order embeddings, chunks, index, language model,
\* memory, chain, and of no step from k on; it raises exactly when a step
\* failed, and a pipeline starts accepting queries only in an initialize
\* whose six steps all completed.
C22_InitializeStepOrder ==
    [][ Step("initialize") =>
            LET k == IF lastCall'.failed_at = "none" THEN 7
                     ELSE CHOOSE i \in 1..6 : Steps[i] = lastCall'.failed_at
                id == attempts'
            IN  /\ Steps = <<"embeddings", "text", "vectorstore", "llm", "memory", "chain">>
                /\ (lastCall'.outcome = "raised") = (k <= 6)
                /\ embeddings' = (IF EmbeddingsStep < k THEN id ELSE embeddings)
                /\ IF VectorstoreStep < k
                   THEN vectorstore'.att = id /\ vectorstore'.origin = "built"
                   ELSE vectorstore' = vectorstore
                /\ llm' = (IF LlmStep < k THEN id ELSE llm)
                /\ memory' = (IF MemoryStep < k THEN id ELSE memory)
                /\ IF ChainStep < k
                   THEN /\ qa_chain'.att = id
                        /\ qa_chain'.retriever = vectorstore'
                        /\ qa_chain'.memory = memory'
                        /\ qa_chain'.llm = llm'
                   ELSE qa_chain' = qa_chain
                /\ (~Ready /\ qa_chain' # NoChain) => k = 7 ]_vars

\* C22 happens: an initialize raised while setting up the language model,
\* after it built the index.
C22_Witness ==
    /\ lastCall.op = "initialize"
    /\ lastCall.outcome = "raised"
    /\ lastCall.failed_at = "llm"
    /\ embeddings = attempts
    /\ vectorstore.att = attempts
    /\ llm # attempts
    /\ qa_chain = NoChain

\* C23: while the pipeline accepts queries, the retriever and the memory of
\* its chain are the index and the memory the pipeline holds.
C23_ChainUsesCurrentIndexAndMemory ==
    Ready => /\ qa_chain.retriever = vectorstore
             /\ qa_chain.memory = memory

\* C24: while the chain is set, the embeddings, the index, the language model
\* and the memory are set too.
C24_ReadyHasAllComponents ==
    Ready => /\ embeddings # 0
             /\ vectorstore # NoStore
             /\ llm # 0
             /\ memory # 0

\* C24 happens: a pipeline that accepts queries after a later initialize
\* failed and after an index was loaded from disk.
C24_Witness ==
    /\ Ready
    /\ attempts > qa_chain.att
    /\ vectorstore.origin = "loaded"
    /\ embeddings # 0 /\ llm # 0 /\ memory # 0

\* C25: once an initialize has succeeded the pipeline accepts queries for
\* good: no query raises the not-initialized error any more.
C25_ReadyIsAbsorbing ==
    [][ /\ succeeded => (Ready /\ qa_chain' # NoChain)
        /\ (succeeded /\ Step("query")) =>
               /\ lastCall'.outcome = "returned"
               /\ lastCall'.error # "NotInitialized" ]_vars

\* C25 happens: a query returned an answer after an initialize that followed
\* the successful one had failed.
C25_Witness ==
    /\ succeeded
    /\ lastCall.op = "query"
    /\ lastCall.outcome = "returned"
    /\ lastCall.failed_at = "none"
    /\ attempts > qa_chain.att

\* The turns a memory holds, as the chat shows a turn.
MemoryTurns(msgs) ==
    [i \in 1..(Len(msgs) \div 2) |->
        [question |-> msgs[2 * i - 1].content[1], answer |-> msgs[2 * i].content]]

\* s is t with some entries left out.
RECURSIVE IsSubsequence(_, _)
IsSubsequence(s, t) ==
    IF s = <<>> THEN TRUE
    ELSE IF t = <<>> THEN FALSE
    ELSE IF Head(s) = Head(t) THEN IsSubsequence(Tail(s), Tail(t))
    ELSE IsSubsequence(s, Tail(t))

\* C26: rag_initialized is true only while rag_pipeline is a pipeline whose
\* initialize returned, and no question asked in the chat makes query raise.
C26_InitializedFlagIsSound ==
    [][ /\ session_state'.rag_initialized =>
               /\ session_state'.rag_pipeline # 0
               /\ qa_chain'.att = session_state'.rag_pipeline
               /\ ~QueryRejected(qa_chain', vectorstore')
        /\ lastAction'.action = "ask" =>
               /\ lastCall'.op = "query"
               /\ lastCall'.outcome = "returned"
               /\ lastAction'.outcome = "done" ]_vars

\* C26 happens: a question was answered in a session in which the upload
\* handled last had failed inside initialize.
C26_Witness ==
    /\ lastAction.action = "ask"
    /\ lastAction.outcome = "done"
    /\ lastCall.failed_at = "none"
    /\ attempts > session_state.rag_pipeline

\* C27: a processing of an upload that fails, at whatever step, leaves the
\* session state, the pipeline it holds and that pipeline's memory as they
\* were; a session that accepted questions still does, over the same index.
C27_FailedProcessingChangesNothing ==
    [][ (lastAction'.action = "process" /\ lastAction'.outcome = "failed") =>
            /\ session_state' = session_state
            /\ <<embeddings', vectorstore', llm', memory', qa_chain'>> = fields
            /\ chat_memory' = chat_memory
            /\ session_state.rag_initialized =>
                   /\ ~QueryRejected(qa_chain', vectorstore')
                   /\ qa_chain'.retriever.docs = SplitText(session_state'.extracted_text) ]_vars

\* C27 happens: a processing failed inside initialize in a session that had a
\* document and a chat.
C27_Witness ==
    /\ lastAction.action = "process"
    /\ lastAction.outcome = "failed"
    /\ lastAction.failed_at = "llm"
    /\ lastAction.was_initialized
    /\ session_state.chat_history # <<>>
    /\ History # <<>>

\* C28: the turns of the pipeline's memory are the chat with some entries
\* left out; a question asked adds one entry to the chat (the answer, or the
\* error text) and a turn to the memory only when it was answered; the Clear
\* Memory button and a successful processing empty both.
C28_MemoryIsSubsequenceOfChat ==
    [][ /\ IsSubsequence(MemoryTurns(GetConversationHistory(memory', chat_memory')),
                         session_state'.chat_history)
        /\ lastAction'.action = "ask" =>
               LET entry == [question |-> lastCall'.question,
                             answer |-> lastCall'.answer]
               IN  /\ session_state'.chat_history
                          = Append(session_state.chat_history, entry)
                   /\ MemoryTurns(GetConversationHistory(memory', chat_memory'))
                          = IF lastCall'.failed_at = "none"
                            THEN Append(MemoryTurns(History), entry)
                            ELSE MemoryTurns(History)
                   /\ lastCall'.failed_at # "none" =>
                          Embeds(lastCall'.answer, lastCall'.cause)
        /\ (\/ lastAction'.action = "clear"
            \/ lastAction'.action = "process" /\ lastAction'.outcome = "done") =>
               /\ session_state'.chat_history = <<>>
               /\ GetConversationHistory(memory', chat_memory') = <<>> ]_vars

\* C28 happens: a chat of a failed question and an answered one, over a memory
\* that holds the answered one only.
C28_Witness ==
    /\ lastAction.action = "ask"
    /\ Len(session_state.chat_history) = 2
    /\ Len(History) = 2
    /\ MemoryTurns(History)[1] = session_state.chat_history[2]

\* C29: when the handling of an upload has returned, the temporary file it
\* created exists no more.
C29_TempFileRemoved ==
    [][ lastAction'.action \in {"process", "extract"} =>
            lastAction'.temp_path \notin temp_files' ]_vars

====
